---- MODULE Spec2Model ----
(***************************************************************************)
(* Residual Symmetric U-Net (efficient_3dunet.py): the construction of the *)
(* stage graph by RSUNet.__init__ and the data flow of RSUNet.forward,     *)
(* over tensor shapes (channel count and 3 spatial extents).               *)
(*                                                                         *)
(* Python values that are "an int or a tuple" are kept tagged, because the *)
(* code distinguishes them (_ntuple, init_stride == 1):                    *)
(*   PyInt(n)   = [kind |-> "int",   val |-> <<n>>]                        *)
(*   PyTuple(t) = [kind |-> "tuple", val |-> t]                            *)
(* Python indices are 0-based; sequences here are 1-based, so s[d] of the  *)
(* source is s[d+1] below.                                                 *)
(***************************************************************************)
EXTENDS Integers, Sequences, FiniteSets, TLC

VARIABLES MODE, net, conv, pc, x, skip, d, log, inp, out

vars == <<MODE, net, conv, pc, x, skip, d, log, inp, out>>

----------------------------------------------------------------------------
(* Bounds of the model.                                                    *)

\* longest generated feature schedule (the module's own sizes has 5 entries)
MaxSchedLen == 6
\* spatial extents of the generated input shapes range over 1..MaxDim
MaxDim == 4
\* number of forward invocations that may be in flight in SpecConc
NumCalls == 2

----------------------------------------------------------------------------
(* Python values.                                                          *)

PyInt(n) == [kind |-> "int", val |-> <<n>>]

PyTuple(t) == [kind |-> "tuple", val |-> t]

\* Python's `v == n` for an int n: a tuple never equals an int.
PyEqInt(v, n) == v.kind = "int" /\ v.val[1] = n

Axes == 1..3

----------------------------------------------------------------------------
(* Module-level values.                                                    *)

nfeatures == <<24, 64, 192, 192, 192>>

sizes == [i \in 1..Len(nfeatures) |-> PyTuple(<<3, 3, 3>>)]

embed_ks == PyTuple(<<1, 5, 5>>)

embed_nin == nfeatures[1]

embed_nout == embed_nin

init_stride == PyTuple(<<1, 2, 2>>)

InitialMODE == "tvm"

----------------------------------------------------------------------------
(* Shape utilities.                                                        *)

\* _ntuple(3): an iterable is returned as it is, a scalar is repeated.
_triple(v) == IF v.kind = "tuple" THEN v.val ELSE <<v.val[1], v.val[1], v.val[1]>>

\* the assertions of pad_size
pad_size_ok(kernel_size, mode) ==
    /\ mode \in {"valid", "same", "full"}
    /\ mode = "same" => \A a \in Axes : _triple(kernel_size)[a] % 2 = 1

pad_size(kernel_size, mode) ==
    LET ks == _triple(kernel_size)
    IN  CASE mode = "valid" -> <<0, 0, 0>>
          [] mode = "same"  -> [a \in Axes |-> ks[a] \div 2]
          [] mode = "full"  -> [a \in Axes |-> ks[a] - 1]

\* batchnorm(): BatchNorm3d or the identity lambda; both keep the shape.
batchnorm(out_channels, use_bn) ==
    IF use_bn THEN [type |-> "BatchNorm3d", features |-> out_channels]
    ELSE [type |-> "identity", features |-> out_channels]

----------------------------------------------------------------------------
(* Tensors: channel count, spatial shape, the invocation that owns the     *)
(* tensor and the stage that produced it.  A raised exception is carried   *)
(* as the tensor with ch = 0 whose prod names the exception.               *)

Tensor(ch, sp, i, prod) == [ch |-> ch, sp |-> sp, inv |-> i, prod |-> prod]

NoTensor == Tensor(0, <<0, 0, 0>>, 0, <<"none", 0>>)

Raise(what) == Tensor(0, <<0, 0, 0>>, 0, <<what, 0>>)

IsErr(t) == t.ch = 0

Relabel(t, name) == IF IsErr(t) THEN t ELSE [t EXCEPT !.prod = name]

----------------------------------------------------------------------------
(* Conv / ConvT.                                                           *)

\* Conv.__init__: the backend is chosen by the module-level MODE (M).
Conv(in_channels, out_channels, kernel_size, stride, padding, bias, M) ==
    [type |-> "Conv",
     backend |-> IF M = "tvm" THEN "fast3d.Conv3d" ELSE "nn.Conv3d",
     in_channels |-> in_channels, out_channels |-> out_channels,
     kernel_size |-> _triple(kernel_size), stride |-> _triple(stride),
     padding |-> padding, bias |-> bias]

\* Conv.__init__, lines 77-78: both backends are built without a bias, so
\* nn.init.constant_(self.conv.bias, 0) is given None when bias is true.
\* nn.Conv3d(bias=False) has bias None; what fast3d's Conv3d(bias=None)
\* leaves in .bias is outside the repository: extBias is that outcome.
ConvInitRaises(bias, M, extBias) == bias /\ (M # "tvm" \/ ~extBias)

\* nn.Conv3d on a shape: floor((n + 2p - k) / s) + 1 per axis.
ConvForward(c, t) ==
    IF IsErr(t) THEN t
    ELSE IF t.ch # c.in_channels THEN Raise("RuntimeError:channels")
    ELSE IF \E a \in Axes : t.sp[a] + 2 * c.padding[a] < c.kernel_size[a]
         THEN Raise("RuntimeError:kernel")
    ELSE [t EXCEPT !.ch = c.out_channels,
                   !.sp = [a \in Axes |->
                       ((t.sp[a] + 2 * c.padding[a] - c.kernel_size[a])
                           \div c.stride[a]) + 1]]

ConvT(in_channels, out_channels, kernel_size, stride, padding, out_pad, bias) ==
    [type |-> "ConvT",
     in_channels |-> in_channels, out_channels |-> out_channels,
     kernel_size |-> _triple(kernel_size), stride |-> _triple(stride),
     padding |-> padding, out_pad |-> _triple(out_pad), bias |-> bias]

\* nn.ConvTranspose3d on a shape: (n - 1) s - 2p + (k - 1) + out_pad + 1 per
\* axis (dilation 1); torch refuses an output padding that is not smaller
\* than the stride (or the dilation) when the convolution runs.
ConvTForward(c, t) ==
    IF IsErr(t) THEN t
    ELSE IF t.ch # c.in_channels THEN Raise("RuntimeError:channels")
    ELSE IF \E a \in Axes : c.out_pad[a] >= c.stride[a] /\ c.out_pad[a] >= 1
         THEN Raise("RuntimeError:output_padding")
    ELSE LET o == [a \in Axes |->
                      (t.sp[a] - 1) * c.stride[a] - 2 * c.padding[a]
                          + (c.kernel_size[a] - 1) + c.out_pad[a] + 1]
         IN  IF \E a \in Axes : o[a] < 1 THEN Raise("RuntimeError:size")
             ELSE [t EXCEPT !.ch = c.out_channels, !.sp = o]

\* x + y of torch: equal shapes, or broadcast over extents of 1.
TensorAdd(a, b) ==
    IF IsErr(a) THEN a
    ELSE IF IsErr(b) THEN b
    ELSE IF /\ (a.ch = b.ch \/ a.ch = 1 \/ b.ch = 1)
            /\ \A k \in Axes : a.sp[k] = b.sp[k] \/ a.sp[k] = 1 \/ b.sp[k] = 1
         THEN [a EXCEPT !.ch = IF a.ch >= b.ch THEN a.ch ELSE b.ch,
                        !.sp = [k \in Axes |->
                            IF a.sp[k] >= b.sp[k] THEN a.sp[k] ELSE b.sp[k]]]
    ELSE Raise("RuntimeError:add")

residual_sum(t, sk, residual) == IF residual THEN TensorAdd(t, sk) ELSE t

----------------------------------------------------------------------------
(* The building blocks: construction (a record of the sub-modules) and     *)
(* forward (the shape the block returns, or the exception it raises).      *)

ConvMod(in_channels, out_channels, kernel_size, residual, use_bn, M) ==
    LET ks   == PyTuple(_triple(kernel_size))
        st   == PyTuple(<<1, 1, 1>>)
        pad  == pad_size(ks, "same")
        bias == ~use_bn
    IN  [type |-> "ConvMod",
         conv1 |-> Conv(in_channels,  out_channels, ks, st, pad, bias, M),
         conv2 |-> Conv(out_channels, out_channels, ks, st, pad, bias, M),
         conv3 |-> Conv(out_channels, out_channels, ks, st, pad, bias, M),
         bn1 |-> batchnorm(out_channels, use_bn),
         bn2 |-> batchnorm(out_channels, use_bn),
         bn3 |-> batchnorm(out_channels, use_bn),
         residual |-> residual]

\* what ConvMod.__init__ raises ("none": nothing)
ConvModRaises(kernel_size, use_bn, M, extBias) ==
    IF ~pad_size_ok(PyTuple(_triple(kernel_size)), "same") THEN "AssertionError:pad_size"
    ELSE IF ConvInitRaises(~use_bn, M, extBias) THEN "AttributeError:bias"
    ELSE "none"

ConvModForward(m, t) ==
    LET x1 == ConvForward(m.conv1, t)
        sk == x1
        x2 == ConvForward(m.conv2, x1)
        x3 == ConvForward(m.conv3, x2)
    IN  residual_sum(x3, sk, m.residual)

KnownUpsample == {"bilinear", "nearest", "transpose"}

UpsampleMod(in_channels, out_channels, up, mode, use_bn, M) ==
    LET ks   == PyTuple(<<1, 1, 1>>)
        st   == PyTuple(<<1, 1, 1>>)
        pad  == <<0, 0, 0>>
        bias == FALSE
    IN  CASE mode = "bilinear" ->
               [type |-> "UpsampleMod", mode |-> mode,
                up   |-> [type |-> "Upsample", scale_factor |-> _triple(up),
                          how |-> "trilinear"],
                conv |-> Conv(in_channels, out_channels, ks, st, pad, bias, M),
                bn   |-> batchnorm(out_channels, use_bn)]
          [] mode = "nearest" ->
               [type |-> "UpsampleMod", mode |-> mode,
                up   |-> [type |-> "Upsample", scale_factor |-> _triple(up),
                          how |-> "nearest"],
                conv |-> Conv(in_channels, out_channels, ks, st, pad, bias, M),
                bn   |-> batchnorm(out_channels, use_bn)]
          [] mode = "transpose" ->
               [type |-> "UpsampleMod", mode |-> mode,
                up   |-> ConvT(in_channels, out_channels, up, up,
                               <<0, 0, 0>>, PyInt(0), bias),
                conv |-> [type |-> "identity"],
                bn   |-> batchnorm(out_channels, use_bn)]

\* the final else of UpsampleMod.__init__: assert False
UpsampleModRaises(mode) ==
    IF mode \in KnownUpsample THEN "none" ELSE "AssertionError:upsample"

\* nn.Upsample(scale_factor): floor(n * scale) per axis, channels kept.
UpsampleForward(u, t) ==
    IF IsErr(t) THEN t
    ELSE [t EXCEPT !.sp = [a \in Axes |-> t.sp[a] * u.scale_factor[a]]]

\* self.conv(self.up(x)) of UpsampleMod.forward: the tensor added to skip
UpsampleModLift(m, t) ==
    LET u == IF m.up.type = "ConvT" THEN ConvTForward(m.up, t)
             ELSE UpsampleForward(m.up, t)
    IN  IF m.conv.type = "identity" THEN u ELSE ConvForward(m.conv, u)

UpsampleModForward(m, t, sk) == TensorAdd(UpsampleModLift(m, t), sk)

MaxPool3d(down) == [type |-> "MaxPool3d", kernel_size |-> _triple(down)]

\* nn.MaxPool3d(k): stride k, no padding, floor mode; an empty output raises.
MaxPool3dForward(m, t) ==
    IF IsErr(t) THEN t
    ELSE IF \E a \in Axes : t.sp[a] < m.kernel_size[a]
         THEN Raise("RuntimeError:pool")
    ELSE [t EXCEPT !.sp = [a \in Axes |->
              ((t.sp[a] - m.kernel_size[a]) \div m.kernel_size[a]) + 1]]

EmbeddingMod(in_channels, out_channels, kernel_size, stride, M) ==
    [type |-> "EmbeddingMod",
     conv |-> Conv(in_channels, out_channels, kernel_size, stride,
                   pad_size(kernel_size, "same"), FALSE, M)]

EmbeddingModUP(in_channels, out_channels, kernel_size, stride) ==
    [type |-> "EmbeddingModUP",
     conv |-> ConvT(in_channels, out_channels, kernel_size, stride,
                    pad_size(kernel_size, "same"), PyTuple(<<0, 1, 1>>), FALSE)]

EmbeddingForward(m, t) ==
    IF m.type = "EmbeddingModUP" THEN ConvTForward(m.conv, t)
    ELSE ConvForward(m.conv, t)

OutputMod(in_channels, out_channels, M) ==
    [type |-> "OutputMod",
     conv |-> Conv(in_channels, out_channels, PyInt(1), PyInt(1),
                   pad_size(PyInt(1), "same"), FALSE, M)]

OutputModForward(m, t) == ConvForward(m.conv, t)

----------------------------------------------------------------------------
(* RSUNet.__init__.  a is the record of the constructor's arguments        *)
(* (aff, depth, residual, upsample, use_bn, init_stride, nfeatures, mode); *)
(* the object under construction is the record b: the modules registered   *)
(* so far by add_module (mods, by name), the running in_channels and the   *)
(* exception raised, if any.  M is the value of the module-level MODE that *)
(* every Conv reads, which line 267 has set to a.mode.                     *)

\* 'convmod{}'.format(depth) and the other stage names
StageName(prefix, n) == <<prefix, n>>

\* nn.Module.add_module: register module under name
add_module(mods, name, module) ==
    [n \in DOMAIN mods \cup {name} |-> IF n = name THEN module ELSE mods[n]]

add_conv_mod(b, a, depth, in_channels, out_channels, kernel_size, M, extBias) ==
    LET e == ConvModRaises(kernel_size, a.use_bn, M, extBias)
    IN  IF e # "none" THEN [b EXCEPT !.err = e]
        ELSE [b EXCEPT !.mods = add_module(@, StageName("convmod", depth),
                  ConvMod(in_channels, out_channels, kernel_size,
                          a.residual, a.use_bn, M))]

add_dconv_mod(b, a, depth, in_channels, out_channels, kernel_size, M, extBias) ==
    LET e == ConvModRaises(kernel_size, a.use_bn, M, extBias)
    IN  IF e # "none" THEN [b EXCEPT !.err = e]
        ELSE [b EXCEPT !.mods = add_module(@, StageName("dconvmod", depth),
                  ConvMod(in_channels, out_channels, kernel_size,
                          a.residual, a.use_bn, M))]

\* down=2 is the default of add_max_pool; in_channels is not used.
add_max_pool(b, depth, in_channels) ==
    [b EXCEPT !.mods = add_module(@, StageName("maxpool", depth),
                                  MaxPool3d(PyInt(2)))]

\* add_upsample_mod without its up=2: UpsampleMod's own default up=(1,2,2)
add_upsample_mod_default_up(b, a, depth, in_channels, out_channels, M) ==
    LET e == UpsampleModRaises(a.upsample)
    IN  IF e # "none" THEN [b EXCEPT !.err = e]
        ELSE [b EXCEPT !.mods = add_module(@, StageName("upsample", depth),
                  UpsampleMod(in_channels, out_channels, PyTuple(<<1, 2, 2>>),
                              a.upsample, a.use_bn, M))]

\* up=2 is the default of add_upsample_mod (not UpsampleMod's own (1,2,2)).
add_upsample_mod(b, a, depth, in_channels, out_channels, M) ==
    LET e == UpsampleModRaises(a.upsample)
    IN  IF e # "none" THEN [b EXCEPT !.err = e]
        ELSE [b EXCEPT !.mods = add_module(@, StageName("upsample", depth),
                  UpsampleMod(in_channels, out_channels, PyInt(2),
                              a.upsample, a.use_bn, M))]

\* lines 279-283: for d in range(depth), from index k on
RECURSIVE ContractingPath(_, _, _, _, _)
ContractingPath(b, a, k, M, extBias) ==
    IF b.err # "none" \/ k >= a.depth THEN b
    ELSE IF k + 1 > Len(sizes) THEN [b EXCEPT !.err = "IndexError:sizes"]
    ELSE LET fs == a.nfeatures[k + 1]
             ks == sizes[k + 1]
             b1 == add_conv_mod(b, a, k, b.in_channels, fs, ks, M, extBias)
             b2 == IF b1.err # "none" THEN b1 ELSE add_max_pool(b1, k + 1, fs)
         IN  ContractingPath([b2 EXCEPT !.in_channels = fs], a, k + 1, M, extBias)

\* lines 286-288
Bridge(b, a, M, extBias) ==
    IF b.err # "none" THEN b
    ELSE IF a.depth + 1 > Len(sizes) THEN [b EXCEPT !.err = "IndexError:sizes"]
    ELSE LET fs == a.nfeatures[a.depth + 1]
             ks == sizes[a.depth + 1]
             b1 == add_conv_mod(b, a, a.depth, b.in_channels, fs, ks, M, extBias)
         IN  [b1 EXCEPT !.in_channels = fs]

\* lines 291-295: for d in reversed(range(depth)), from index k down
RECURSIVE ExpandingPath(_, _, _, _, _)
ExpandingPath(b, a, k, M, extBias) ==
    IF b.err # "none" \/ k < 0 THEN b
    ELSE LET fs == a.nfeatures[k + 1]
             ks == sizes[k + 1]
             b1 == add_upsample_mod(b, a, k, b.in_channels, fs, M)
             b2 == [b1 EXCEPT !.in_channels = fs]
             b3 == IF b2.err # "none" THEN b2
                   ELSE add_dconv_mod(b2, a, k, b2.in_channels, fs, ks, M, extBias)
         IN  ExpandingPath(b3, a, k - 1, M, extBias)

\* lines 298-303
EmbedOut(a, in_channels, M) ==
    IF PyEqInt(a.init_stride, 1)
    THEN EmbeddingMod(in_channels, embed_nout, embed_ks, PyInt(1), M)
    ELSE EmbeddingModUP(in_channels, embed_nout, embed_ks, a.init_stride)

\* lines 274-275
EmbedIn(a, in_channels, M) ==
    EmbeddingMod(in_channels, embed_nin, embed_ks, a.init_stride, M)

\* The object RSUNet(...) leaves: status "ok" with its attributes, or
\* status "failed" with the exception that ended the constructor.
RSUNet(a, extBias) ==
    LET M == a.mode
    IN  IF ~(a.depth < Len(a.nfeatures))
        THEN [status |-> "failed", err |-> "AssertionError:depth", args |-> a]
        ELSE IF ~pad_size_ok(embed_ks, "same")
        THEN [status |-> "failed", err |-> "AssertionError:pad_size", args |-> a]
        ELSE LET b0 == [err |-> "none", mods |-> <<>>, in_channels |-> embed_nin]
                 b1 == ContractingPath(b0, a, 0, M, extBias)
                 b2 == Bridge(b1, a, M, extBias)
                 b3 == ExpandingPath(b2, a, a.depth - 1, M, extBias)
             IN  IF b3.err # "none"
                 THEN [status |-> "failed", err |-> b3.err, args |-> a]
                 ELSE [status |-> "ok", err |-> "none", args |-> a,
                       residual |-> a.residual, upsample |-> a.upsample,
                       use_bn |-> a.use_bn, depth |-> a.depth,
                       embed_in |-> EmbedIn(a, 1, M),
                       mods |-> b3.mods,
                       embed_out |-> EmbedOut(a, b3.in_channels, M),
                       output |-> OutputMod(embed_nout, a.aff, M)]

----------------------------------------------------------------------------
(* Inputs.                                                                 *)

RECURSIVE Pow2(_)
Pow2(n) == IF n <= 0 THEN 1 ELSE 2 * Pow2(n - 1)

\* feature schedules: the module's default and (8, 16, 32, ...) of each length
Schedules == {nfeatures} \cup {[k \in 1..n |-> 8 * Pow2(k - 1)] : n \in 1..MaxSchedLen}

Upsamples == KnownUpsample \cup {"foo"}

Strides == {PyInt(1), PyInt(2), PyTuple(<<1, 1, 1>>), init_stride}

Modes == {"tvm", "torch"}

Args(aff, depth, residual, upsample, use_bn, stride, sched, mode) ==
    [aff |-> aff, depth |-> depth, residual |-> residual, upsample |-> upsample,
     use_bn |-> use_bn, init_stride |-> stride, nfeatures |-> sched, mode |-> mode]

\* every topology with the default flags, and every flag on small topologies
AllArgs ==
    {Args(3, dp, TRUE, up, TRUE, st, sc, InitialMODE) :
        dp \in 0..MaxSchedLen, up \in Upsamples, st \in Strides,
        sc \in Schedules}
    \cup
    {Args(3, dp, r, up, bn, init_stride, nfeatures, m) :
        dp \in 0..1, r \in BOOLEAN, up \in {"bilinear", "foo"},
        bn \in BOOLEAN, m \in Modes}

ExampleShape == <<16, 64, 64>>

Shapes == {<<a, b, c>> : a \in 1..MaxDim, b \in 1..MaxDim, c \in 1..MaxDim}
              \cup {ExampleShape}

\* the inputs of the interleaved specification
ConcArgs ==
    {Args(3, dp, TRUE, up, TRUE, st, nfeatures, InitialMODE) :
        dp \in 0..2, up \in {"bilinear", "transpose", "foo"},
        st \in {PyInt(1), init_stride}}

ConcShapes == {<<n, n, n>> : n \in 1..MaxDim}

Calls == 1..NumCalls

----------------------------------------------------------------------------
(* State.  MODE is the module-level variable; net is the RSUNet object of  *)
(* the latest constructor call; conv is the backend of the latest Conv     *)
(* built on its own.  Each forward invocation i has its position pc[i],    *)
(* its locals x[i], skip[i] (the list `skip`), d[i], its argument inp[i]   *)
(* and its result out[i]; log[i] lists what it has done, in order:         *)
(*   <<stage name prefix, stage index, i>>  a registered stage was run     *)
(*   <<"push", k, i>>                       skip.append after convmod k    *)
(*   <<"pop", k, j>>                        skip[..] read a tensor that    *)
(*                                          convmod k of invocation j made *)

Init ==
    /\ MODE = InitialMODE
    /\ net = [status |-> "none"]
    /\ conv = "none"
    /\ pc = [i \in Calls |-> "idle"]
    /\ x = [i \in Calls |-> NoTensor]
    /\ skip = [i \in Calls |-> <<>>]
    /\ d = [i \in Calls |-> 0]
    /\ log = [i \in Calls |-> <<>>]
    /\ inp = [i \in Calls |-> <<0, 0, 0>>]
    /\ out = [i \in Calls |-> NoTensor]

\* RSUNet(...): lines 266-267 set MODE before anything can fail.  The model
\* follows one RSUNet object at a time: net is the only reference to it.
Construct(a, extBias) ==
    /\ net.status = "none"
    /\ \A i \in Calls : pc[i] = "idle"
    /\ MODE' = a.mode
    /\ net' = RSUNet(a, extBias)
    /\ UNCHANGED <<conv, pc, x, skip, d, log, inp, out>>

\* the reference to the object (or to the failed attempt) is dropped; the
\* module-level MODE stays as the constructor left it
Discard ==
    /\ net.status # "none"
    /\ \A i \in Calls : pc[i] = "idle"
    /\ net' = [status |-> "none"]
    /\ UNCHANGED <<MODE, conv, pc, x, skip, d, log, inp, out>>

\* Conv(...) built on its own, outside any network
NewConv ==
    /\ \A i \in Calls : pc[i] = "idle"
    /\ conv' = Conv(1, 1, PyInt(1), PyInt(1), <<0, 0, 0>>, FALSE, MODE).backend
    /\ UNCHANGED <<MODE, net, pc, x, skip, d, log, inp, out>>

----------------------------------------------------------------------------
(* RSUNet.forward, one action per stage of the data flow.                  *)

\* skip = []  (line 340): a list local to invocation i
NewSkipCache(sk, i) == [sk EXCEPT ![i] = <<>>]

\* skip.append(x) on one list that every invocation shares
SkipAppendShared(sk, i, t) == [j \in DOMAIN sk |-> Append(sk[j], t)]

\* skip.append(x)  (line 345)
SkipAppend(sk, i, t) == [sk EXCEPT ![i] = Append(@, t)]

\* the list read from its front as the expanding path descends
SkipAtFifo(l, k) == l[Len(l) - k]

\* skip[d]  (line 356) on the list l
SkipAt(l, k) == l[k + 1]

\* the names forward looks up with getattr
ConvModName(k) == StageName("convmod", k)

\* 'maxpool{}'.format(d), the index the other stages use
MaxPoolNameSameIndex(k) == StageName("maxpool", k)

MaxPoolName(k) == StageName("maxpool", k + 1)

UpsampleName(k) == StageName("upsample", k)

DConvModName(k) == StageName("dconvmod", k)

\* getattr(self, name) succeeds
HasAttr(name) == name \in DOMAIN net.mods

Event(name, i) == <<name[1], name[2], i>>

\* model(x): the call enters forward with its argument
Call(i, S) ==
    /\ pc[i] = "idle"
    /\ net.status = "ok"
    /\ pc' = [pc EXCEPT ![i] = "embed_in"]
    /\ x' = [x EXCEPT ![i] = Tensor(1, S, i, <<"input", 0>>)]
    /\ inp' = [inp EXCEPT ![i] = S]
    /\ UNCHANGED <<MODE, net, conv, skip, d, log, out>>

\* lines 338-340
EmbedInStep(i) ==
    /\ pc[i] = "embed_in"
    /\ LET t == Relabel(EmbeddingForward(net.embed_in, x[i]), <<"embed_in", 0>>)
       IN  /\ x' = [x EXCEPT ![i] = t]
           /\ IF IsErr(t)
              THEN /\ pc' = [pc EXCEPT ![i] = "error"]
                   /\ UNCHANGED <<skip, log>>
              ELSE /\ skip' = NewSkipCache(skip, i)
                   /\ log' = [log EXCEPT ![i] = Append(@, <<"embed_in", 0, i>>)]
                   /\ pc' = [pc EXCEPT ![i] =
                                IF 0 < net.depth THEN "contract" ELSE "bridge"]
    /\ d' = [d EXCEPT ![i] = 0]
    /\ UNCHANGED <<MODE, net, conv, inp, out>>

\* lines 341-346, one iteration of the contracting loop
ContractStep(i) ==
    /\ pc[i] = "contract"
    /\ LET k  == d[i]
           cn == ConvModName(k)
           pn == MaxPoolName(k)
       IN  IF ~HasAttr(cn) \/ ~HasAttr(pn)
           THEN /\ x' = [x EXCEPT ![i] = Raise("AttributeError")]
                /\ pc' = [pc EXCEPT ![i] = "error"]
                /\ UNCHANGED <<skip, d, log>>
           ELSE LET t1 == Relabel(ConvModForward(net.mods[cn], x[i]), cn)
                    t2 == Relabel(MaxPool3dForward(net.mods[pn], t1), pn)
                IN  IF IsErr(t1)
                    THEN /\ x' = [x EXCEPT ![i] = t1]
                         /\ pc' = [pc EXCEPT ![i] = "error"]
                         /\ UNCHANGED <<skip, d, log>>
                    ELSE /\ skip' = SkipAppend(skip, i, t1)
                         /\ x' = [x EXCEPT ![i] = t2]
                         /\ IF IsErr(t2)
                            THEN /\ pc' = [pc EXCEPT ![i] = "error"]
                                 /\ log' = [log EXCEPT ![i] =
                                       @ \o <<Event(cn, i), <<"push", k, i>>>>]
                                 /\ UNCHANGED d
                            ELSE /\ log' = [log EXCEPT ![i] =
                                       @ \o <<Event(cn, i), <<"push", k, i>>,
                                              Event(pn, i)>>]
                                 /\ d' = [d EXCEPT ![i] = k + 1]
                                 /\ pc' = [pc EXCEPT ![i] =
                                       IF k + 1 < net.depth THEN "contract"
                                       ELSE "bridge"]
    /\ UNCHANGED <<MODE, net, conv, inp, out>>

\* lines 349-350
BridgeStep(i) ==
    /\ pc[i] = "bridge"
    /\ LET bn == ConvModName(net.depth)
       IN  IF ~HasAttr(bn)
           THEN /\ x' = [x EXCEPT ![i] = Raise("AttributeError")]
                /\ pc' = [pc EXCEPT ![i] = "error"]
                /\ UNCHANGED <<d, log>>
           ELSE LET t == Relabel(ConvModForward(net.mods[bn], x[i]), bn)
                IN  /\ x' = [x EXCEPT ![i] = t]
                    /\ IF IsErr(t)
                       THEN /\ pc' = [pc EXCEPT ![i] = "error"]
                            /\ UNCHANGED <<d, log>>
                       ELSE /\ log' = [log EXCEPT ![i] = Append(@, Event(bn, i))]
                            /\ d' = [d EXCEPT ![i] =
                                  IF net.depth > 0 THEN net.depth - 1 ELSE 0]
                            /\ pc' = [pc EXCEPT ![i] =
                                  IF net.depth > 0 THEN "expand" ELSE "embed_out"]
    /\ UNCHANGED <<MODE, net, conv, skip, inp, out>>

\* lines 353-356, one iteration of the expanding loop
ExpandStep(i) ==
    /\ pc[i] = "expand"
    /\ LET k  == d[i]
           un == UpsampleName(k)
           dn == DConvModName(k)
       IN  IF ~HasAttr(un) \/ ~HasAttr(dn)
           THEN /\ x' = [x EXCEPT ![i] = Raise("AttributeError")]
                /\ pc' = [pc EXCEPT ![i] = "error"]
                /\ UNCHANGED <<d, log>>
           ELSE IF k + 1 > Len(skip[i])
           THEN /\ x' = [x EXCEPT ![i] = Raise("IndexError:skip")]
                /\ pc' = [pc EXCEPT ![i] = "error"]
                /\ UNCHANGED <<d, log>>
           ELSE LET s  == SkipAt(skip[i], k)
                    t1 == Relabel(UpsampleModForward(net.mods[un], x[i], s), un)
                    t2 == Relabel(ConvModForward(net.mods[dn], t1), dn)
                    pop == <<"pop", s.prod[2], s.inv>>
                IN  /\ x' = [x EXCEPT ![i] = t2]
                    /\ IF IsErr(t1)
                       THEN /\ pc' = [pc EXCEPT ![i] = "error"]
                            /\ log' = [log EXCEPT ![i] = Append(@, pop)]
                            /\ UNCHANGED d
                       ELSE IF IsErr(t2)
                       THEN /\ pc' = [pc EXCEPT ![i] = "error"]
                            /\ log' = [log EXCEPT ![i] = @ \o <<pop, Event(un, i)>>]
                            /\ UNCHANGED d
                       ELSE /\ log' = [log EXCEPT ![i] =
                                  @ \o <<pop, Event(un, i), Event(dn, i)>>]
                            /\ d' = [d EXCEPT ![i] = IF k > 0 THEN k - 1 ELSE 0]
                            /\ pc' = [pc EXCEPT ![i] =
                                  IF k > 0 THEN "expand" ELSE "embed_out"]
    /\ UNCHANGED <<MODE, net, conv, skip, inp, out>>

\* line 359
EmbedOutStep(i) ==
    /\ pc[i] = "embed_out"
    /\ LET t == Relabel(EmbeddingForward(net.embed_out, x[i]), <<"embed_out", 0>>)
       IN  /\ x' = [x EXCEPT ![i] = t]
           /\ IF IsErr(t)
              THEN /\ pc' = [pc EXCEPT ![i] = "error"]
                   /\ UNCHANGED log
              ELSE /\ pc' = [pc EXCEPT ![i] = "output"]
                   /\ log' = [log EXCEPT ![i] = Append(@, <<"embed_out", 0, i>>)]
    /\ UNCHANGED <<MODE, net, conv, skip, d, inp, out>>

\* lines 360-361
OutputStep(i) ==
    /\ pc[i] = "output"
    /\ LET t == Relabel(OutputModForward(net.output, x[i]), <<"output", 0>>)
       IN  IF IsErr(t)
           THEN /\ x' = [x EXCEPT ![i] = t]
                /\ pc' = [pc EXCEPT ![i] = "error"]
                /\ UNCHANGED <<out, log>>
           ELSE /\ out' = [out EXCEPT ![i] = t]
                /\ pc' = [pc EXCEPT ![i] = "done"]
                /\ log' = [log EXCEPT ![i] = Append(@, <<"output", 0, i>>)]
                /\ UNCHANGED x
    /\ UNCHANGED <<MODE, net, conv, skip, d, inp>>

\* the invocation is over (returned, or the exception left forward): its
\* locals are gone
Return(i) ==
    /\ pc[i] \in {"done", "error"}
    /\ pc' = [pc EXCEPT ![i] = "idle"]
    /\ x' = [x EXCEPT ![i] = NoTensor]
    /\ skip' = [skip EXCEPT ![i] = <<>>]
    /\ d' = [d EXCEPT ![i] = 0]
    /\ log' = [log EXCEPT ![i] = <<>>]
    /\ inp' = [inp EXCEPT ![i] = <<0, 0, 0>>]
    /\ out' = [out EXCEPT ![i] = NoTensor]
    /\ UNCHANGED <<MODE, net, conv>>

----------------------------------------------------------------------------
(* Specifications.                                                         *)

\* one caller: constructions and forward passes, one after the other
Next ==
    \/ \E a \in AllArgs, extBias \in BOOLEAN : Construct(a, extBias)
    \/ Discard
    \/ \E S \in Shapes : Call(1, S)
    \/ EmbedInStep(1)
    \/ ContractStep(1)
    \/ BridgeStep(1)
    \/ ExpandStep(1)
    \/ EmbedOutStep(1)
    \/ OutputStep(1)
    \/ Return(1)

Spec == Init /\ [][Next]_vars

\* several callers of forward on one network, interleaved stage by stage
NextConc ==
    \/ \E a \in ConcArgs : Construct(a, FALSE)
    \/ Discard
    \/ \E i \in Calls, S \in ConcShapes : Call(i, S)
    \/ \E i \in Calls : EmbedInStep(i)
    \/ \E i \in Calls : ContractStep(i)
    \/ \E i \in Calls : BridgeStep(i)
    \/ \E i \in Calls : ExpandStep(i)
    \/ \E i \in Calls : EmbedOutStep(i)
    \/ \E i \in Calls : OutputStep(i)
    \/ \E i \in Calls : Return(i)

SpecConc == Init /\ [][NextConc]_vars

\* constructions only, of networks and of single Convs
NextBuild ==
    \/ \E a \in AllArgs, extBias \in BOOLEAN : Construct(a, extBias)
    \/ Discard
    \/ NewConv

SpecBuild == Init /\ [][NextBuild]_vars

----------------------------------------------------------------------------
(* Properties.                                                             *)

InFlight(i) == pc[i] # "idle"

\* the input of invocation i as embed_in leaves it
Embedded(i) ==
    EmbeddingForward(net.embed_in, Tensor(1, inp[i], i, <<"input", 0>>))

\* every spatial extent that enters the contracting path is a multiple of
\* 2^depth, so that each of the depth poolings halves it exactly
PoolAligned(i) ==
    /\ ~IsErr(Embedded(i))
    /\ \A a \in Axes : Embedded(i).sp[a] % Pow2(net.depth) = 0

\* at an expanding step, the upsampled and channel-matched x has the shape
\* of the skip tensor it is added to
SkipAddFits(i) ==
    LET s == SkipAt(skip[i], d[i])
        u == UpsampleModLift(net.mods[UpsampleName(d[i])], x[i])
    IN  u.ch = s.ch /\ u.sp = s.sp

\* C1, as stated: for any input spatial shape, at every expanding step d the
\* upsampled and channel-matched x has the channel count and spatial shape
\* of skips[d], so x_upsampled + skip is always shape-valid.
C1_SkipAddFitsAnyShape ==
    \A i \in Calls : pc[i] = "expand" => SkipAddFits(i)

\* C1, amended: for an input whose spatial shape, as embed_in leaves it, is
\* on every axis a multiple of 2^depth, at every expanding step d the
\* upsampled and channel-matched x has the channel count and spatial shape
\* of skips[d].
C1_SkipAddFitsAlignedShape ==
    \A i \in Calls : (pc[i] = "expand" /\ PoolAligned(i)) => SkipAddFits(i)

C1_Witness ==
    /\ pc[1] = "expand" /\ d[1] = 0 /\ net.depth >= 2
    /\ PoolAligned(1) /\ SkipAddFits(1)

UnitStride(v) == \A a \in Axes : _triple(v)[a] = 1

\* C2, for an init_stride that is 1 on every axis and a shape the poolings
\* halve exactly: apply returns, and its output has the spatial shape of
\* its input (the spec's scenario: init_stride (1,1,1), input (16,64,64)).
C2_UnitStrideKeepsShape ==
    \A i \in Calls :
        (pc[i] \in {"done", "error"} /\ UnitStride(net.args.init_stride)
            /\ PoolAligned(i))
        => (pc[i] = "done" /\ out[i].sp = inp[i])

\* C3, with the default flags: for every schedule and every depth in
\* [0, length(schedule) - 1], with a known upsample strategy, construction
\* succeeds.
C3_ConstructionSucceeds ==
    (/\ net.status # "none"
     /\ net.args.depth <= Len(net.args.nfeatures) - 1
     /\ net.args.upsample \in KnownUpsample
     /\ net.args.use_bn)
    => net.status = "ok"

StagePrefixes == {"convmod", "maxpool", "upsample", "dconvmod"}

\* the stages a network of depth D is to hold
StagesOf(D) ==
    {StageName("convmod", k) : k \in 0..D}
    \cup {StageName("maxpool", k) : k \in 1..D}
    \cup {StageName("upsample", k) : k \in 0..(D - 1)}
    \cup {StageName("dconvmod", k) : k \in 0..(D - 1)}

Registered(prefix) == {n \in DOMAIN net.mods : n[1] = prefix}

\* how often invocation i has run the stage name
Runs(i, name) ==
    Cardinality({j \in 1..Len(log[i]) :
        log[i][j][1] = name[1] /\ log[i][j][2] = name[2]})

\* C4: a constructed network of depth D holds exactly D+1 contracting
\* ConvModules, D pooling ops, D UpsampleModules and D expanding ConvModules;
\* a forward pass looks up no stage that is not registered, runs no stage
\* twice, and has run every stage exactly once when the expanding path is
\* over.
C4_StageGraph ==
    net.status = "ok" =>
        /\ Cardinality(Registered("convmod")) = net.depth + 1
        /\ Cardinality(Registered("maxpool")) = net.depth
        /\ Cardinality(Registered("upsample")) = net.depth
        /\ Cardinality(Registered("dconvmod")) = net.depth
        /\ DOMAIN net.mods = StagesOf(net.depth)
        /\ \A n \in Registered("convmod") \cup Registered("dconvmod") :
               net.mods[n].type = "ConvMod"
        /\ \A n \in Registered("maxpool") : net.mods[n].type = "MaxPool3d"
        /\ \A n \in Registered("upsample") : net.mods[n].type = "UpsampleMod"
        /\ \A i \in Calls :
               /\ x[i].prod[1] # "AttributeError"
               /\ \A j \in 1..Len(log[i]) :
                      log[i][j][1] \in StagePrefixes =>
                          /\ StageName(log[i][j][1], log[i][j][2]) \in DOMAIN net.mods
                          /\ Runs(i, log[i][j]) = 1
               /\ pc[i] \in {"embed_out", "output", "done"} =>
                      \A n \in DOMAIN net.mods : Runs(i, n) = 1

C4_Witness ==
    /\ pc[1] = "done" /\ net.depth >= 2
    /\ \A n \in StagesOf(net.depth) : Runs(1, n) = 1

RECURSIVE ContractLog(_, _, _)
ContractLog(k, D, i) ==
    IF k >= D THEN <<>>
    ELSE <<<<"convmod", k, i>>, <<"push", k, i>>, <<"maxpool", k + 1, i>>>>
             \o ContractLog(k + 1, D, i)

RECURSIVE ExpandLog(_, _)
ExpandLog(k, i) ==
    IF k < 0 THEN <<>>
    ELSE <<<<"pop", k, i>>, <<"upsample", k, i>>, <<"dconvmod", k, i>>>>
             \o ExpandLog(k - 1, i)

\* the order of a whole forward pass on a network of depth D
ForwardLog(D, i) ==
    <<<<"embed_in", 0, i>>>> \o ContractLog(0, D, i) \o <<<<"convmod", D, i>>>>
        \o ExpandLog(D - 1, i) \o <<<<"embed_out", 0, i>>, <<"output", 0, i>>>>

IsPrefix(s, t) == Len(s) <= Len(t) /\ \A j \in 1..Len(s) : s[j] = t[j]

\* C5: skips are pushed in the order 0..depth-1, each after contracting
\* stage d and before pool d; the bridge runs after all pushes; the
\* expanding steps run in the order depth-1..0, step d reading the skip that
\* contracting step d recorded; a pass that returns has read every skip once.
C5_LifoOrder ==
    \A i \in Calls :
        InFlight(i) =>
            /\ IsPrefix(log[i], ForwardLog(net.depth, i))
            /\ pc[i] = "done" => log[i] = ForwardLog(net.depth, i)

C5_Witness ==
    /\ pc[1] = "expand" /\ d[1] = 0 /\ net.depth >= 3
    /\ \E j \in 1..Len(log[1]) : log[1][j] = <<"pop", 1, 1>>

\* C6: with forward passes interleaved on one network, every skip tensor an
\* invocation holds or has read was recorded by that invocation; its cache
\* is empty when its contracting path starts and holds exactly depth
\* entries when its bridge stage runs.
C6_SkipCacheOwned ==
    \A i \in Calls :
        /\ \A j \in 1..Len(skip[i]) : skip[i][j].inv = i
        /\ \A j \in 1..Len(log[i]) : log[i][j][1] = "pop" => log[i][j][3] = i
        /\ (pc[i] = "contract" /\ d[i] = 0) => skip[i] = <<>>
        /\ pc[i] = "bridge" => Len(skip[i]) = net.depth

C6_Witness ==
    /\ pc[1] = "expand" /\ \E j \in 1..Len(log[1]) : log[1][j][1] = "pop"
    /\ pc[2] = "contract" /\ Len(skip[2]) = 1
    /\ inp[1] # inp[2]

\* C7: no network is ever successfully constructed with an upsample
\* strategy other than bilinear, nearest or transpose.
C7_UnknownUpsampleRejected ==
    net.status = "ok" => net.upsample \in KnownUpsample

\* C8: embed_out is a plain EmbeddingMod exactly when init_stride is 1 on
\* every axis (the scalar 1 or the tuple (1,1,1)), and an EmbeddingModUP
\* with stride init_stride otherwise.
C8_EmbedOutKind ==
    net.status = "ok" =>
        IF UnitStride(net.args.init_stride)
        THEN net.embed_out.type = "EmbeddingMod"
        ELSE /\ net.embed_out.type = "EmbeddingModUP"
             /\ net.embed_out.conv.stride = _triple(net.args.init_stride)

\* C9: embed_in has 1 input channel and feature_schedule[0] output
\* channels, of the schedule given to that construction.
C9_EmbedInWidth ==
    net.status = "ok" =>
        /\ net.embed_in.conv.in_channels = 1
        /\ net.embed_in.conv.out_channels = net.args.nfeatures[1]

\* C10: no construction, successful or failed, changes a module-level
\* variable.
C10_ConstructionKeepsGlobals == [][MODE' = MODE]_vars

====
